---- MODULE Spec2Model ----
(***************************************************************************)
(* Task Tracker (flask-team-app): file-backed users and per-user task      *)
(* collections, session authentication, and the dashboard filter stage.    *)
(* Modelled from app/routes.py; apply_filters also from run.py.            *)
(*                                                                         *)
(* Text the code inspects (usernames, emails, passwords, dates, redirect   *)
(* targets, paths) is a sequence of one-character strings, so that         *)
(* strip(), lower(), startswith(), the e-mail pattern and date parsing are *)
(* computed as the code computes them.  Python's None is the empty         *)
(* sequence and a present value v is <<v>>.                                *)
(***************************************************************************)
EXTENDS Integers, Sequences, FiniteSets, TLC

(***************************************************************************)
(* Bounds of the model.                                                    *)
(***************************************************************************)
MaxUsers == 2
MaxTasks == 2
MaxId == 3
MaxClock == 1

(***************************************************************************)
(* Python str and int helpers.                                             *)
(***************************************************************************)
Uppers == <<"A","B","C","D","E","F","G","H","I","J","K","L","M",
            "N","O","P","Q","R","S","T","U","V","W","X","Y","Z">>
Lowers == <<"a","b","c","d","e","f","g","h","i","j","k","l","m",
            "n","o","p","q","r","s","t","u","v","w","x","y","z">>
Digits == <<"0","1","2","3","4","5","6","7","8","9">>

IsSpace(c) == c \in {" ", "\t", "\n", "\r", "\f"}

IsDigit(c) == \E i \in DOMAIN Digits : Digits[i] = c

DigitVal(c) == (CHOOSE i \in DOMAIN Digits : Digits[i] = c) - 1

LowerChar(c) ==
    IF \E i \in DOMAIN Uppers : Uppers[i] = c
    THEN Lowers[CHOOSE i \in DOMAIN Uppers : Uppers[i] = c]
    ELSE c

str_lower(s) == [i \in 1..Len(s) |-> LowerChar(s[i])]

RECURSIVE str_lstrip(_)
str_lstrip(s) ==
    IF s = <<>> THEN s
    ELSE IF IsSpace(Head(s)) THEN str_lstrip(Tail(s)) ELSE s

RECURSIVE str_rstrip(_)
str_rstrip(s) ==
    IF s = <<>> THEN s
    ELSE IF IsSpace(s[Len(s)]) THEN str_rstrip(SubSeq(s, 1, Len(s) - 1)) ELSE s

str_strip(s) == str_rstrip(str_lstrip(s))

str_startswith(s, prefix) ==
    /\ Len(s) >= Len(prefix)
    /\ SubSeq(s, 1, Len(prefix)) = prefix

\* needle in haystack
str_contains(haystack, needle) ==
    \E i \in 1..(Len(haystack) - Len(needle) + 1) :
        SubSeq(haystack, i, i + Len(needle) - 1) = needle

RECURSIVE int_str(_)
int_str(n) ==
    IF n < 10 THEN <<Digits[n + 1]>>
    ELSE int_str(n \div 10) \o <<Digits[(n % 10) + 1]>>

AllDigits(s) == \A i \in DOMAIN s : IsDigit(s[i])

\* value of a string of decimal digits
RECURSIVE DecVal(_)
DecVal(s) ==
    IF s = <<>> THEN 0
    ELSE 10 * DecVal(SubSeq(s, 1, Len(s) - 1)) + DigitVal(s[Len(s)])

SeqMin(S) == CHOOSE x \in S : \A y \in S : x <= y
SeqMax(S) == CHOOSE x \in S : \A y \in S : x >= y

\* the printable ASCII characters, in code point order from 32 (the grave
\* accent, 96, occurs in no text here and its place is left empty)
Ascii ==
    << " ", "!", "\"", "#", "$", "%", "&", "'", "(", ")", "*", "+", ",", "-", ".", "/",
       "0", "1", "2", "3", "4", "5", "6", "7", "8", "9", ":", ";", "<", "=", ">", "?",
       "@", "A", "B", "C", "D", "E", "F", "G", "H", "I", "J", "K", "L", "M", "N", "O",
       "P", "Q", "R", "S", "T", "U", "V", "W", "X", "Y", "Z", "[", "\\", "]", "^", "_",
       "",  "a", "b", "c", "d", "e", "f", "g", "h", "i", "j", "k", "l", "m", "n", "o",
       "p", "q", "r", "s", "t", "u", "v", "w", "x", "y", "z", "{", "|", "}", "~" >>

\* ord(c), the code point
code_point(c) == 31 + CHOOSE i \in DOMAIN Ascii : Ascii[i] = c

\* a < b on str: by code point, a proper prefix first
str_less(a, b) ==
    LET differ == {i \in DOMAIN a \cap DOMAIN b : a[i] # b[i]}
        first == CHOOSE i \in differ : \A j \in differ : i <= j
    IN  IF differ = {} THEN Len(a) < Len(b)
        ELSE code_point(a[first]) < code_point(b[first])

None == <<>>
Some(v) == <<v>>

(***************************************************************************)
(* datetime.date: a date is its proleptic Gregorian ordinal (toordinal()). *)
(***************************************************************************)
MINYEAR == 1
MAXYEAR == 9999

is_leap(y) == (y % 4 = 0) /\ ((y % 100 # 0) \/ (y % 400 = 0))

days_in_month(y, m) ==
    IF m = 2 THEN (IF is_leap(y) THEN 29 ELSE 28)
    ELSE IF m \in {4, 6, 9, 11} THEN 30 ELSE 31

days_before_year(y) ==
    (y - 1) * 365 + ((y - 1) \div 4) - ((y - 1) \div 100) + ((y - 1) \div 400)

RECURSIVE days_before_month(_, _)
days_before_month(y, m) ==
    IF m = 1 THEN 0 ELSE days_before_month(y, m - 1) + days_in_month(y, m - 1)

ymd2ord(y, m, d) == days_before_year(y) + days_before_month(y, m) + d

\* date(y, m, d): the constructor's range checks; None stands for ValueError
date_ymd(y, m, d) ==
    IF /\ MINYEAR <= y /\ y <= MAXYEAR
       /\ 1 <= m /\ m <= 12
       /\ 1 <= d /\ d <= days_in_month(y, m)
    THEN Some(ymd2ord(y, m, d))
    ELSE None

isoweek1monday(y) ==
    LET firstday == ymd2ord(y, 1, 1)
        firstweekday == (firstday + 6) % 7
        week1monday == firstday - firstweekday
    IN  IF firstweekday > 3 THEN week1monday + 7 ELSE week1monday

\* ISO year/week/day to a date; None stands for ValueError
isoweek_to_date(y, week, day) ==
    LET first_weekday == ymd2ord(y, 1, 1) % 7
        has53 == first_weekday = 4 \/ (first_weekday = 3 /\ is_leap(y))
        ord == isoweek1monday(y) + (week - 1) * 7 + (day - 1)
    IN  IF /\ MINYEAR <= y /\ y <= MAXYEAR
           /\ (1 <= week /\ week <= 52) \/ (week = 53 /\ has53)
           /\ 1 <= day /\ day <= 7
           /\ ord <= ymd2ord(MAXYEAR, 12, 31)
        THEN Some(ord)
        ELSE None

\* YYYY-MM-DD, the only form date.fromisoformat takes before Python 3.11
iso_extended(s) ==
    IF /\ Len(s) = 10
       /\ s[5] = "-" /\ s[8] = "-"
       /\ AllDigits(SubSeq(s, 1, 4))
       /\ AllDigits(SubSeq(s, 6, 7))
       /\ AllDigits(SubSeq(s, 9, 10))
    THEN date_ymd(DecVal(SubSeq(s, 1, 4)), DecVal(SubSeq(s, 6, 7)),
                  DecVal(SubSeq(s, 9, 10)))
    ELSE None

\* YYYYMMDD, YYYYWww, YYYYWwwD, YYYY-Www, YYYY-Www-D: taken from Python 3.11 on
iso_basic_or_week(s) ==
    IF Len(s) = 8 /\ AllDigits(s)
    THEN date_ymd(DecVal(SubSeq(s, 1, 4)), DecVal(SubSeq(s, 5, 6)),
                  DecVal(SubSeq(s, 7, 8)))
    ELSE IF /\ Len(s) \in {7, 8}
            /\ AllDigits(SubSeq(s, 1, 4)) /\ s[5] = "W"
            /\ AllDigits(SubSeq(s, 6, Len(s)))
    THEN isoweek_to_date(DecVal(SubSeq(s, 1, 4)), DecVal(SubSeq(s, 6, 7)),
                         IF Len(s) = 8 THEN DecVal(SubSeq(s, 8, 8)) ELSE 1)
    ELSE IF /\ Len(s) \in {8, 10}
            /\ AllDigits(SubSeq(s, 1, 4)) /\ s[5] = "-" /\ s[6] = "W"
            /\ AllDigits(SubSeq(s, 7, 8))
            /\ Len(s) = 10 => (s[9] = "-" /\ IsDigit(s[10]))
    THEN isoweek_to_date(DecVal(SubSeq(s, 1, 4)), DecVal(SubSeq(s, 7, 8)),
                         IF Len(s) = 10 THEN DecVal(SubSeq(s, 10, 10)) ELSE 1)
    ELSE None

\* datetime.date.fromisoformat(value) under the interpreter in use;
\* None stands for ValueError
date_fromisoformat(value, py311) ==
    IF iso_extended(value) # None THEN iso_extended(value)
    ELSE IF py311 THEN iso_basic_or_week(value)
    ELSE None

parse_date_yyyy_mm_dd(value, py311) ==
    IF value = <<>> THEN None
    ELSE date_fromisoformat(value, py311)

(***************************************************************************)
(* Text literals.                                                          *)
(***************************************************************************)
S_bob     == <<"b","o","b">>
S_BOB     == <<"B","O","B">>
S_blank   == <<" ">>
S_abc     == <<"a","@","b",".","c">>
S_ABC     == <<"A","@","B",".","C">>
S_xyz     == <<"x","@","y",".","z">>
S_nodot   == <<"a","@","b">>
S_secret  == <<"s","e","c","r","e","t">>
S_hunter2 == <<"h","u","n","t","e","r","2">>
S_short   == <<"a","b","c","d","e">>

P_root    == <<"/">>
P_home    == <<"/","h","o","m","e">>
P_login   == <<"/","l","o","g","i","n">>
P_register == <<"/","r","e","g","i","s","t","e","r">>
P_tasks   == <<"/","t","a","s","k","s">>
S_http    == <<"h","t","t","p",":","/","/">>
S_https   == <<"h","t","t","p","s",":","/","/">>

(***************************************************************************)
(* Persistence.  A file is absent, or holds a document that is malformed   *)
(* or is a JSON value with a top-level type; items are the elements of an  *)
(* array.  json.dump of a list of records of integers and strings followed *)
(* by json.load gives the list back, so an array document holds the list.  *)
(***************************************************************************)
NoFile == [exists |-> FALSE, wellformed |-> FALSE, type |-> "none", items |-> <<>>]

\* json.dump(value, f, indent=2) into a file opened with "w"
json_dump(value) ==
    [exists |-> TRUE, wellformed |-> TRUE, type |-> value.type, items |-> value.items]

JsonList(items) == [type |-> "array", items |-> items]

DATA_PATH == None
USERS_DOC == json_dump(JsonList(<<>>))

\* mutant: one file for the tasks of all users
task_file_for_user_shared(user_id) == Some(1)

task_file_for_user(user_id) == Some(user_id)

\* the task documents: the legacy tasks.json and one file per user id
TaskPaths == {DATA_PATH} \cup {task_file_for_user(i) : i \in 1..MaxUsers}

\* the data directory before the first request
EmptyDisk == [users |-> NoFile, tasks |-> [k \in TaskPaths |-> NoFile]]

ensure_data_files(disk) ==
    IF ~disk.users.exists
    THEN [disk EXCEPT !.users = USERS_DOC]
    ELSE disk

\* (disk after the call, value returned)
load_users(disk) ==
    LET d == ensure_data_files(disk)
    IN  [disk |-> d,
         value |-> IF d.users.wellformed
                   THEN [type |-> d.users.type, items |-> d.users.items]
                   ELSE JsonList(<<>>)]

save_users(disk, users) ==
    [ensure_data_files(disk) EXCEPT !.users = json_dump(users)]

tasks_path(user_id) ==
    IF user_id = None THEN DATA_PATH ELSE task_file_for_user(user_id[1])

load_tasks(disk, user_id) ==
    LET d == ensure_data_files(disk)
        f == d.tasks[tasks_path(user_id)]
    IN  [disk |-> d,
         value |-> IF ~f.exists THEN JsonList(<<>>)
                   ELSE IF f.wellformed THEN [type |-> f.type, items |-> f.items]
                   ELSE JsonList(<<>>)]

\* mutant: tasks of the stored list that are not in the list written are kept
save_tasks_merging(disk, tasks, user_id) ==
    LET d == ensure_data_files(disk)
        stored == load_tasks(d, user_id).value.items
        absent(t) == \A i \in DOMAIN tasks.items : tasks.items[i] # t
    IN  [d EXCEPT !.tasks[tasks_path(user_id)] =
                     json_dump(JsonList(tasks.items \o SelectSeq(stored, absent)))]

save_tasks(disk, tasks, user_id) ==
    [ensure_data_files(disk) EXCEPT !.tasks[tasks_path(user_id)] = json_dump(tasks)]

(***************************************************************************)
(* Identity helpers.                                                       *)
(***************************************************************************)
\* mutant: names and e-mails are compared as typed
find_user_exact(users, username, email, user_id) ==
    LET hit(u) == \/ (user_id # None /\ u.id = user_id[1])
                  \/ (username # <<>> /\ u.username = username)
                  \/ (email # <<>> /\ u.email = email)
        idx == {i \in DOMAIN users : hit(users[i])}
    IN  IF idx = {} THEN None ELSE Some(users[SeqMin(idx)])

\* username, email: "" or None when not given; user_id: None or Some(id)
find_user(users, username, email, user_id) ==
    LET hit(u) == \/ (user_id # None /\ u.id = user_id[1])
                  \/ (username # <<>> /\ str_lower(u.username) = str_lower(username))
                  \/ (email # <<>> /\ str_lower(u.email) = str_lower(email))
        idx == {i \in DOMAIN users : hit(users[i])}
    IN  IF idx = {} THEN None ELSE Some(users[SeqMin(idx)])

\* mutant: the largest id in use is handed out again
next_user_id_reusing(users) ==
    IF users = <<>> THEN 1
    ELSE SeqMax({users[i].id : i \in DOMAIN users})

next_user_id(users) ==
    IF users = <<>> THEN 1
    ELSE SeqMax({users[i].id : i \in DOMAIN users}) + 1

\* re.match(r"^[^@\s]+@[^@\s]+\.[^@\s]+$", email); $ also matches before a
\* final newline
is_valid_email(email) ==
    LET b == IF email # <<>> /\ email[Len(email)] = "\n"
             THEN SubSeq(email, 1, Len(email) - 1) ELSE email
    IN  \E a \in DOMAIN b, d \in DOMAIN b :
            /\ b[a] = "@" /\ b[d] = "."
            /\ 1 < a /\ a + 1 < d /\ d < Len(b)
            /\ \A i \in DOMAIN b : i # a => (b[i] # "@" /\ ~IsSpace(b[i]))

\* werkzeug: the stored hash names method and salt; the digest is a one-way
\* function of (salt, password), kept symbolic
generate_password_hash(password, salt) ==
    [method |-> "pbkdf2:sha256", salt |-> salt, digest |-> <<salt, password>>]

check_password_hash(pwhash, password) ==
    pwhash.digest = <<pwhash.salt, password>>

(***************************************************************************)
(* Requests and responses.                                                 *)
(***************************************************************************)
NoSession == [user_id |-> None, username |-> None]

\* session.get("user_id") is truthy
logged_in(sess) == sess.user_id # None /\ sess.user_id[1] # 0

\* url_for(endpoint, **values): the route's path and the query values
url_for(path, query) == [url |-> path, query |-> query]

\* the request: the view function routed to, request.path, the <int:task_id>
\* and request.form (request.args for a GET)
Request(endpoint, path, task_id, form) ==
    [endpoint |-> endpoint, path |-> path, task_id |-> task_id, form |-> form]

NoForm == [empty |-> TRUE]

redirect(req, location, flashes) ==
    [request |-> req, status |-> 302, location |-> Some(location),
     flash |-> flashes, template |-> "", context |-> None]

\* render_template(name, **context)
render_template(req, name, context) ==
    [request |-> req, status |-> 200, location |-> None,
     flash |-> <<>>, template |-> name, context |-> context]

abort(req, code) ==
    [request |-> req, status |-> code, location |-> None,
     flash |-> <<>>, template |-> "", context |-> None]

NoResponse == [request |-> Request("", <<>>, None, NoForm), status |-> 0, location |-> None,
               flash |-> <<>>, template |-> "", context |-> None]

Out(disk, sess, response) == [disk |-> disk, session |-> sess, resp |-> response]

F_fill      == <<"Please fill out username, email, and password.", "error">>
F_email     == <<"Please enter a valid email address (example: name@example.com).", "error">>
F_password  == <<"Password must be at least 6 characters long.", "error">>
F_taken     == <<"That username is already taken.", "error">>
F_registered == <<"That email is already registered.", "error">>
F_created   == <<"Account created! Please log in.", "success">>
F_invalid   == <<"Invalid username/email or password.", "error">>
F_welcome(username) == <<"Welcome back", username, "success">>
F_logout    == <<"You have been logged out.", "success">>
F_title     == <<"Task title is required.", "error">>
F_due       == <<"Please choose a valid due date.", "error">>

(***************************************************************************)
(* Auth handlers: (disk, session, form) to (disk, session, response).      *)
(***************************************************************************)
register_post(disk, sess, form, salt) ==
    LET req == Request("register_post", P_register, None, form)
        username == str_strip(form.username)
        email == str_strip(form.email)
        password == form.password
        loaded == load_users(disk)
        users == loaded.value.items
        user == [id |-> next_user_id(users), username |-> username, email |-> email,
                 password_hash |-> generate_password_hash(password, salt)]
    IN  IF logged_in(sess)
        THEN Out(disk, sess, redirect(req, url_for(P_home, <<>>), <<>>))
        ELSE IF username = <<>> \/ email = <<>> \/ password = <<>>
        THEN Out(disk, sess, redirect(req, url_for(P_register, <<>>), <<F_fill>>))
        ELSE IF ~is_valid_email(email)
        THEN Out(disk, sess, redirect(req, url_for(P_register, <<>>), <<F_email>>))
        ELSE IF Len(password) < 6
        THEN Out(disk, sess, redirect(req, url_for(P_register, <<>>), <<F_password>>))
        ELSE IF find_user(users, username, <<>>, None) # None
        THEN Out(loaded.disk, sess, redirect(req, url_for(P_register, <<>>), <<F_taken>>))
        ELSE IF find_user(users, <<>>, email, None) # None
        THEN Out(loaded.disk, sess,
                 redirect(req, url_for(P_register, <<>>), <<F_registered>>))
        ELSE Out(save_users(loaded.disk, JsonList(Append(users, user))), sess,
                 redirect(req, url_for(P_login, <<>>), <<F_created>>))

\* mutant: an identifier that matches no user is answered by the redirect to
\* the registration page
login_post_revealing(disk, sess, form) ==
    LET req == Request("login_post", P_login, None, form)
        username_or_email == str_strip(form.username_or_email)
        loaded == load_users(disk)
        users == loaded.value.items
        by_name == find_user(users, username_or_email, <<>>, None)
        user == IF by_name # None THEN by_name
                ELSE find_user(users, <<>>, username_or_email, None)
        next_url == IF form.next # <<>> THEN form.next ELSE P_home
    IN  IF logged_in(sess)
        THEN Out(disk, sess, redirect(req, url_for(P_home, <<>>), <<>>))
        ELSE IF user = None
        THEN Out(loaded.disk, sess,
                 redirect(req, url_for(P_register, <<>>), <<F_invalid>>))
        ELSE IF ~check_password_hash(user[1].password_hash, form.password)
        THEN Out(loaded.disk, sess,
                 redirect(req, url_for(P_login, <<<<"next", form.next>>>>), <<F_invalid>>))
        ELSE Out(loaded.disk,
                 [user_id |-> Some(user[1].id), username |-> Some(user[1].username)],
                 redirect(req,
                          IF str_startswith(next_url, S_http) \/ str_startswith(next_url, S_https)
                          THEN url_for(P_home, <<>>)
                          ELSE url_for(next_url, <<>>),
                          <<F_welcome(user[1].username)>>))

login_post(disk, sess, form) ==
    LET req == Request("login_post", P_login, None, form)
        username_or_email == str_strip(form.username_or_email)
        password == form.password
        loaded == load_users(disk)
        users == loaded.value.items
        by_name == find_user(users, username_or_email, <<>>, None)
        user == IF by_name # None THEN by_name
                ELSE find_user(users, <<>>, username_or_email, None)
        next_url == IF form.next # <<>> THEN form.next ELSE P_home
    IN  IF logged_in(sess)
        THEN Out(disk, sess, redirect(req, url_for(P_home, <<>>), <<>>))
        ELSE IF user = None \/ ~check_password_hash(user[1].password_hash, password)
        THEN Out(loaded.disk, sess,
                 redirect(req, url_for(P_login, <<<<"next", form.next>>>>), <<F_invalid>>))
        ELSE Out(loaded.disk,
                 [user_id |-> Some(user[1].id), username |-> Some(user[1].username)],
                 redirect(req,
                          IF str_startswith(next_url, S_http) \/ str_startswith(next_url, S_https)
                          THEN url_for(P_home, <<>>)
                          ELSE url_for(next_url, <<>>),
                          <<F_welcome(user[1].username)>>))

logout(disk, sess) ==
    Out(disk, NoSession,
        redirect(Request("logout", <<"/","l","o","g","o","u","t">>, None, NoForm),
                 url_for(P_root, <<>>), <<F_logout>>))

\* mutant: the guard lets every request through to the view
login_required_open(disk, sess, req, view_out) == view_out

\* @login_required around a view: the view's outcome, or the redirect to login
login_required(disk, sess, req, view_out) ==
    IF ~logged_in(sess)
    THEN Out(disk, sess, redirect(req, url_for(P_login, <<<<"next", req.path>>>>), <<>>))
    ELSE view_out

(***************************************************************************)
(* Tasks, and the dashboard's filter stage.                                *)
(***************************************************************************)
S_complete   == <<"c","o","m","p","l","e","t","e">>
S_incomplete == <<"i","n","c","o","m","p","l","e","t","e">>
S_all        == <<"a","l","l">>
S_due_asc    == <<"d","u","e","_","a","s","c">>
S_newest     == <<"n","e","w","e","s","t">>
S_Complete   == <<"C","o","m","p","l","e","t","e">>

\* mutant: the number of stored tasks plus one
next_id_by_count(tasks) == Len(tasks) + 1

\* max((t.get("id", 0) for t in tasks), default=0) + 1
next_id(tasks) ==
    IF tasks = <<>> THEN 0 + 1
    ELSE SeqMax({tasks[i].id : i \in DOMAIN tasks}) + 1

\* (total, complete, incomplete)
compute_stats(tasks) ==
    LET total == Len(tasks)
        is_complete(t) == t.status = S_complete
        complete == Len(SelectSeq(tasks, is_complete))
    IN  <<total, complete, total - complete>>

\* datetime.date.max and datetime.date.min
date_max == ymd2ord(MAXYEAR, 12, 31)
date_min == ymd2ord(MINYEAR, 1, 1)

\* mutant: among elements of equal keys the later one comes first, as in
\* reversed(sorted(..., reverse=False))
sorted_unstable(s, less) ==
    LET before(j, i) == less[j][i] \/ (~less[i][j] /\ j > i)
        rank(i) == 1 + Cardinality({j \in DOMAIN s : before(j, i)})
    IN  [k \in DOMAIN s |-> s[CHOOSE i \in DOMAIN s : rank(i) = k]]

\* sorted(s, key=...), less[i][j] telling whether the key of s[i] is smaller
\* than the key of s[j]: each element goes behind the elements whose key is
\* smaller and the earlier elements whose key is equal
sorted(s, less) ==
    LET before(j, i) == less[j][i] \/ (~less[i][j] /\ j < i)
        rank(i) == 1 + Cardinality({j \in DOMAIN s : before(j, i)})
    IN  [k \in DOMAIN s |-> s[CHOOSE i \in DOMAIN s : rank(i) = k]]

S_due_desc == <<"d","u","e","_","d","e","s","c">>
S_status   == <<"s","t","a","t","u","s">>
S_oldest   == <<"o","l","d","e","s","t">>

\* mutant: due_desc is the due_asc order read backwards, sorted(..., key of
\* due_asc, reverse=True), and the other keys are not looked at
sort_tasks_desc_reversed(tasks, sort_key, py311) ==
    LET key == str_strip(sort_key)
        D == DOMAIN tasks
        due == [i \in D |-> parse_date_yyyy_mm_dd(tasks[i].due_date, py311)]
        undated == [i \in D |-> due[i] = None]
        asc == [i \in D |-> IF undated[i] THEN date_max ELSE due[i][1]]
        due_asc == [i \in D |-> [j \in D |->
                     IF undated[i] # undated[j] THEN undated[j]
                     ELSE IF asc[i] # asc[j] THEN asc[i] < asc[j]
                     ELSE str_less(tasks[i].created_at, tasks[j].created_at)]]
        backwards == [i \in D |-> [j \in D |-> due_asc[j][i]]]
    IN  IF key = S_due_asc THEN sorted(tasks, due_asc)
        ELSE IF key = S_due_desc THEN sorted(tasks, backwards)
        ELSE tasks

sort_tasks(tasks, sort_key, py311) ==
    LET key == str_strip(sort_key)
        D == DOMAIN tasks
        \* the parts of the keys, task by task
        due == [i \in D |-> parse_date_yyyy_mm_dd(tasks[i].due_date, py311)]
        undated == [i \in D |-> due[i] = None]
        asc == [i \in D |-> IF undated[i] THEN date_max ELSE due[i][1]]
        desc == [i \in D |-> -(IF undated[i] THEN date_min ELSE due[i][1])]
        is_complete == [i \in D |-> tasks[i].status = S_complete]
        \* key of tasks[i] < key of tasks[j]
        older == [i \in D |-> [j \in D |->
                     str_less(tasks[i].created_at, tasks[j].created_at)]]
        newer == [i \in D |-> [j \in D |-> older[j][i]]]
        due_asc == [i \in D |-> [j \in D |->
                     IF undated[i] # undated[j] THEN undated[j]
                     ELSE IF asc[i] # asc[j] THEN asc[i] < asc[j]
                     ELSE older[i][j]]]
        due_desc == [i \in D |-> [j \in D |->
                     IF undated[i] # undated[j] THEN undated[j]
                     ELSE IF desc[i] # desc[j] THEN desc[i] < desc[j]
                     ELSE older[i][j]]]
        status == [i \in D |-> [j \in D |->
                     IF is_complete[i] # is_complete[j] THEN is_complete[j]
                     ELSE older[i][j]]]
    IN  IF key = S_due_asc THEN sorted(tasks, due_asc)
        ELSE IF key = S_due_desc THEN sorted(tasks, due_desc)
        ELSE IF key = S_status THEN sorted(tasks, status)
        ELSE IF key = S_newest THEN sorted(tasks, newer)
        ELSE IF key = S_oldest THEN sorted(tasks, older)
        ELSE tasks

\* index of the first task with that id, as next(...) over the generator finds it
find_task(tasks, task_id) ==
    LET idx == {i \in DOMAIN tasks : tasks[i].id = task_id}
    IN  IF idx = {} THEN None ELSE Some(SeqMin(idx))

F_bad_exact == <<"Invalid exact due date filter. Please choose a valid date.", "error">>
F_bad_from  == <<"Invalid 'From' due date. Please choose a valid date.", "error">>
F_bad_to    == <<"Invalid 'To' due date. Please choose a valid date.", "error">>
F_reversed  == <<"Due date range was reversed. Swapping From/To.", "error">>

\* x or default, for text
or_else(x, default) == IF x # <<>> THEN x ELSE default

\* mutant: a task due on a bound itself is left out
in_range_exclusive(t, frm, to, py311) ==
    LET d == parse_date_yyyy_mm_dd(t.due_date, py311)
    IN  IF d = None THEN FALSE
        ELSE IF frm # None /\ d[1] <= frm[1] THEN FALSE
        ELSE IF to # None /\ d[1] >= to[1] THEN FALSE
        ELSE TRUE

\* def in_range(task), shared by both versions
in_range(t, frm, to, py311) ==
    LET d == parse_date_yyyy_mm_dd(t.due_date, py311)
    IN  IF d = None THEN FALSE
        ELSE IF frm # None /\ d[1] < frm[1] THEN FALSE
        ELSE IF to # None /\ d[1] > to[1] THEN FALSE
        ELSE TRUE

\* mutant: the range narrows the result of the exact date too
due_stage_narrowing(tasks, exact, frm, to, py311) ==
    LET is_exact(t) == parse_date_yyyy_mm_dd(t.due_date, py311) = exact
        ranged(t) == in_range(t, frm, to, py311)
        by_exact == IF exact # None THEN SelectSeq(tasks, is_exact) ELSE tasks
    IN  IF frm # None \/ to # None THEN SelectSeq(by_exact, ranged) ELSE by_exact

\* app/routes.py, the due-date stage: if exact: ... elif frm or to: ...
due_stage(tasks, exact, frm, to, py311) ==
    LET is_exact(t) == parse_date_yyyy_mm_dd(t.due_date, py311) = exact
        ranged(t) == in_range(t, frm, to, py311)
    IN  IF exact # None THEN SelectSeq(tasks, is_exact)
        ELSE IF frm # None \/ to # None THEN SelectSeq(tasks, ranged)
        ELSE tasks

\* mutant: an exact date that does not parse matches no task
due_filter_rejecting(filtered, due, due_from, due_to, exact, frm0, to0, py311) ==
    IF due # <<>> /\ exact = None
    THEN [filtered |-> <<>>, flashes |-> <<F_bad_exact>>]
    ELSE [filtered |-> due_stage(filtered, exact, frm0, to0, py311), flashes |-> <<>>]

\* app/routes.py, 3.3 once the three dates are parsed: the messages, the
\* swap of a reversed range, and the due-date stage
due_filter(filtered, due, due_from, due_to, exact, frm0, to0, py311) ==
    LET reversed == frm0 # None /\ to0 # None /\ frm0[1] > to0[1]
        frm == IF reversed THEN to0 ELSE frm0
        to == IF reversed THEN frm0 ELSE to0
        flashes == (IF due # <<>> /\ exact = None THEN <<F_bad_exact>> ELSE <<>>)
                   \o (IF due_from # <<>> /\ frm0 = None THEN <<F_bad_from>> ELSE <<>>)
                   \o (IF due_to # <<>> /\ to0 = None THEN <<F_bad_to>> ELSE <<>>)
                   \o (IF reversed THEN <<F_reversed>> ELSE <<>>)
    IN  [filtered |-> due_stage(filtered, exact, frm, to, py311), flashes |-> flashes]

\* app/routes.py: (filtered list, messages flashed)
apply_filters(tasks, status, q, due, due_from, due_to, py311) ==
    LET status1 == str_lower(or_else(status, S_all))
        by_status(t) == or_else(t.status, S_incomplete) = status1
        f1 == IF status1 \in {S_complete, S_incomplete}
              THEN SelectSeq(tasks, by_status) ELSE tasks
        q1 == str_strip(q)
        q_lower == str_lower(q1)
        matches(t) == \/ str_contains(str_lower(t.title), q_lower)
                      \/ str_contains(str_lower(t.memo), q_lower)
        f2 == IF q1 # <<>> THEN SelectSeq(f1, matches) ELSE f1
    IN  due_filter(f2, due, due_from, due_to,
                   parse_date_yyyy_mm_dd(due, py311),
                   parse_date_yyyy_mm_dd(due_from, py311),
                   parse_date_yyyy_mm_dd(due_to, py311), py311)

E_due   == "Due date filter must be a valid date."
E_from  == "From date must be a valid date."
E_to    == "To date must be a valid date."
E_range == "Due date range is invalid: From is after To."

\* mutant: run.py with the policy of app/routes.py, a reversed range is swapped
\* (and still warned about)
run_apply_filters_swapping(tasks, status, q, due, due_from, due_to, py311) ==
    [filtered |-> apply_filters(tasks, status, q, str_strip(due), str_strip(due_from),
                                str_strip(due_to), py311).filtered,
     active |-> <<>>, errors |-> <<E_range>>,
     status |-> str_lower(str_strip(or_else(status, S_all))),
     q |-> str_strip(q), due |-> str_strip(due),
     due_from |-> str_strip(due_from), due_to |-> str_strip(due_to)]

\* run.py: (filtered, active, errors, status, q, due, due_from, due_to); the
\* labels of the active filters are kept as (kind, values) instead of text
run_apply_filters(tasks, status, q, due, due_from, due_to, py311) ==
    LET status0 == str_lower(str_strip(or_else(status, S_all)))
        q1 == str_strip(q)
        due1 == str_strip(due)
        due_from1 == str_strip(due_from)
        due_to1 == str_strip(due_to)
        filtering == status0 \in {S_complete, S_incomplete}
        status1 == IF filtering THEN status0 ELSE S_all
        by_status(t) == (t.status = S_complete) <=> (status0 = S_complete)
        f1 == IF filtering THEN SelectSeq(tasks, by_status) ELSE tasks
        a1 == IF filtering THEN <<<<"Status", status0>>>> ELSE <<>>
        needle == str_lower(q1)
        matches(t) == \/ str_contains(str_lower(t.title), needle)
                      \/ str_contains(str_lower(t.memo), needle)
        f2 == IF q1 # <<>> THEN SelectSeq(f1, matches) ELSE f1
        a2 == IF q1 # <<>> THEN <<<<"Search", q1>>>> ELSE <<>>
        due_dt == IF due1 # <<>> THEN parse_date_yyyy_mm_dd(due1, py311) ELSE None
        from_dt == IF due_from1 # <<>> THEN parse_date_yyyy_mm_dd(due_from1, py311) ELSE None
        to_dt == IF due_to1 # <<>> THEN parse_date_yyyy_mm_dd(due_to1, py311) ELSE None
        e1 == (IF due1 # <<>> /\ due_dt = None THEN <<E_due>> ELSE <<>>)
              \o (IF due_from1 # <<>> /\ from_dt = None THEN <<E_from>> ELSE <<>>)
              \o (IF due_to1 # <<>> /\ to_dt = None THEN <<E_to>> ELSE <<>>)
        is_exact(t) == parse_date_yyyy_mm_dd(t.due_date, py311) = due_dt
        ranged_task(t) == in_range(t, from_dt, to_dt, py311)
        invalid_range == from_dt # None /\ to_dt # None /\ from_dt[1] > to_dt[1]
        ranged == due_dt = None /\ (from_dt # None \/ to_dt # None)
        f3 == IF due_dt # None THEN SelectSeq(f2, is_exact)
              ELSE IF ranged /\ ~invalid_range THEN SelectSeq(f2, ranged_task)
              ELSE f2
        a3 == IF due_dt # None THEN <<<<"Due", due_dt>>>>
              ELSE IF ranged /\ ~invalid_range
              THEN (IF from_dt # None /\ to_dt # None THEN <<<<"Due range", from_dt, to_dt>>>>
                    ELSE IF from_dt # None THEN <<<<"Due from", from_dt>>>>
                    ELSE <<<<"Due up to", to_dt>>>>)
              ELSE <<>>
        e2 == IF ranged /\ invalid_range THEN <<E_range>> ELSE <<>>
    IN  [filtered |-> f3, active |-> a1 \o a2 \o a3, errors |-> e1 \o e2,
         status |-> status1, q |-> q1, due |-> due1,
         due_from |-> due_from1, due_to |-> due_to1]

(***************************************************************************)
(* Task handlers.                                                          *)
(***************************************************************************)
P_add == P_tasks \o <<"/","a","d","d">>
P_task(task_id) == P_tasks \o <<"/">> \o int_str(task_id)
P_toggle(task_id) == P_task(task_id) \o <<"/","t","o","g","g","l","e">>
P_delete(task_id) == P_task(task_id) \o <<"/","d","e","l","e","t","e">>

\* the query values a POST carries back to /home
dashboard_params_from_request(req) ==
    LET sort == str_strip(or_else(req.sort, S_due_asc))
        status == str_lower(str_strip(or_else(req.status, S_all)))
    IN  [sort |-> or_else(sort, S_due_asc),
         status |-> or_else(status, S_all),
         q |-> str_strip(req.q),
         due |-> str_strip(req.due),
         due_from |-> str_strip(req.due_from),
         due_to |-> str_strip(req.due_to)]

home_query(params) ==
    << <<"sort", params.sort>>, <<"status", params.status>>, <<"q", params.q>>,
       <<"due", params.due>>, <<"due_from", params.due_from>>,
       <<"due_to", params.due_to>> >>

\* datetime.datetime.now().isoformat(timespec="seconds"), the clock counting
\* seconds from 2024-01-01T00:00:00
now_isoformat(clock) ==
    <<"2","0","2","4","-","0","1","-","0","1","T","0","0",":","0","0",":">>
    \o (IF clock < 10 THEN <<"0">> ELSE <<>>) \o int_str(clock)

add_task(disk, sess, form, clock, py311) ==
    LET req == Request("add_task", P_add, None, form)
        title == str_strip(form.title)
        memo == str_strip(form.memo)
        due_date == str_strip(form.due_date)
        loaded == load_tasks(disk, sess.user_id)
        tasks == loaded.value.items
        task == [id |-> next_id(tasks), title |-> title, memo |-> memo,
                 status |-> S_incomplete, due_date |-> due_date,
                 created_at |-> now_isoformat(clock)]
        params == dashboard_params_from_request(form.dash)
    IN  login_required(disk, sess, req,
            IF title = <<>>
            THEN Out(disk, sess, redirect(req, url_for(P_home, <<>>), <<F_title>>))
            ELSE IF due_date # <<>> /\ parse_date_yyyy_mm_dd(due_date, py311) = None
            THEN Out(disk, sess, redirect(req, url_for(P_home, <<>>), <<F_due>>))
            ELSE Out(save_tasks(loaded.disk, JsonList(Append(tasks, task)), sess.user_id),
                     sess, redirect(req, url_for(P_home, home_query(params)), <<>>)))

\* mutant: a toggle only ever completes a task
flip_status_complete(status) == S_complete

\* "complete" if task.get("status") != "complete" else "incomplete"
flip_status(status) ==
    IF status # S_complete THEN S_complete ELSE S_incomplete

toggle_task(disk, sess, task_id, form) ==
    LET req == Request("toggle_task", P_toggle(task_id), Some(task_id), form)
        loaded == load_tasks(disk, sess.user_id)
        tasks == loaded.value.items
        found == find_task(tasks, task_id)
        flipped == [tasks EXCEPT ![found[1]].status = flip_status(@)]
        params == dashboard_params_from_request(form.dash)
    IN  login_required(disk, sess, req,
            IF found = None
            THEN Out(loaded.disk, sess, abort(req, 404))
            ELSE Out(save_tasks(loaded.disk, JsonList(flipped), sess.user_id),
                     sess, redirect(req, url_for(P_home, home_query(params)), <<>>)))

\* mutant: the id is taken for a position in the list
without_task_at(tasks, task_id) ==
    LET keep(t) == t # tasks[IF task_id \in DOMAIN tasks THEN task_id ELSE 1]
    IN  SelectSeq(tasks, keep)

\* [t for t in tasks if t.get("id") != task_id]
without_task(tasks, task_id) ==
    LET keep(t) == t.id # task_id
    IN  SelectSeq(tasks, keep)

delete_task(disk, sess, task_id, form) ==
    LET req == Request("delete_task", P_delete(task_id), Some(task_id), form)
        loaded == load_tasks(disk, sess.user_id)
        tasks == without_task(loaded.value.items, task_id)
        params == dashboard_params_from_request(form.dash)
    IN  login_required(disk, sess, req,
            Out(save_tasks(loaded.disk, JsonList(tasks), sess.user_id),
                sess, redirect(req, url_for(P_home, home_query(params)), <<>>)))

view_task(disk, sess, task_id) ==
    LET req == Request("view_task", P_task(task_id), Some(task_id), NoForm)
        loaded == load_tasks(disk, sess.user_id)
        found == find_task(loaded.value.items, task_id)
    IN  login_required(disk, sess, req,
            IF found = None
            THEN Out(loaded.disk, sess, abort(req, 404))
            ELSE Out(loaded.disk, sess, render_template(req, "task.html",
                                                     Some(loaded.value.items[found[1]]))))

\* GET /home, from the sorted list on: the statistics and the rendering
home_page_sorted(disk, sess, req, params, has_any_tasks, flashes, tasks_sorted) ==
    LET stats == compute_stats(tasks_sorted)
        filters_active == \/ params.status \in {S_complete, S_incomplete}
                          \/ params.q # <<>> \/ params.due # <<>>
                          \/ params.due_from # <<>> \/ params.due_to # <<>>
        context == [tasks |-> tasks_sorted, total |-> stats[1], complete |-> stats[2],
                    incomplete |-> stats[3], username |-> sess.username,
                    sort |-> params.sort, status_filter |-> params.status,
                    q |-> params.q, due |-> params.due, due_from |-> params.due_from,
                    due_to |-> params.due_to, has_any_tasks |-> has_any_tasks,
                    filters_active |-> filters_active]
    IN  Out(disk, sess,
            [render_template(req, "home.html", Some(context)) EXCEPT !.flash = flashes])

\* GET /home, from the filtered list on: sort after filtering
home_page_filtered(disk, sess, req, params, has_any_tasks, shown, py311) ==
    home_page_sorted(disk, sess, req, params, has_any_tasks, shown.flashes,
                     sort_tasks(shown.filtered, params.sort, py311))

\* GET /home, from the query values and the loaded tasks on
home_page_loaded(sess, req, params, loaded, py311) ==
    home_page_filtered(loaded.disk, sess, req, params, Len(loaded.value.items) > 0,
                       apply_filters(loaded.value.items, params.status, params.q,
                                     params.due, params.due_from, params.due_to, py311),
                       py311)

\* GET /home: the messages of the filter stage are flashed and rendered
home_page(disk, sess, args, py311) ==
    login_required(disk, sess, Request("home_page", P_home, None, args),
        home_page_loaded(sess, Request("home_page", P_home, None, args),
                         dashboard_params_from_request(args),
                         load_tasks(disk, sess.user_id), py311))

(***************************************************************************)
(* The application as a state machine: one browser session issuing         *)
(* requests one at a time against the data directory.                      *)
(***************************************************************************)
VARIABLES disk,      \* users.json and the task files
          session,   \* the browser's session
          now,       \* the wall clock, in seconds
          py311,     \* whether the interpreter is Python 3.11 or later
          resp,      \* the last response, with the request it answers
          ret,       \* the value returned by the last direct call of a helper
          hist,      \* history: the run of equal successful task requests
          threads    \* the requests the threaded server is serving side by side

vars == <<disk, session, now, py311, resp, ret, hist, threads>>

\* a server thread: where it stands in its request (idle, loaded: between
\* load_tasks and save_tasks, done), the request, the list load_tasks gave it,
\* the list it has in hand for save_tasks, the response it returns, and for
\* the properties how many saves were done when it loaded and which save, in
\* order, was its own
Threads == {1, 2}
IdleThread == [pc |-> "idle", request |-> Request("", <<>>, None, NoForm),
               read |-> <<>>, tasks |-> <<>>, resp |-> NoResponse,
               seen |-> 0, turn |-> 0]
NoThreads == [t \in Threads |-> IdleThread]

S_read     == <<"R","e","a","d">>
D_jan10    == <<"2","0","2","4","-","0","1","-","1","0">>
D_jan10b   == <<"2","0","2","4","0","1","1","0">>
D_feb30    == <<"2","0","2","4","-","0","2","-","3","0">>
S_evil     == <<"e",".","x">>
S_HTTP     == <<"H","T","T","P",":","/","/">>

NoDash == [sort |-> <<>>, status |-> <<>>, q |-> <<>>, due |-> <<>>,
           due_from |-> <<>>, due_to |-> <<>>]

NoHistory == [endpoint |-> "", task_id |-> 0, count |-> 0, origin |-> <<>>]

StoredUsers(d) == load_users(d).value.items
StoredTasks(d, user_id) == load_tasks(d, user_id).value.items

Init ==
    /\ disk = EmptyDisk
    /\ session = NoSession
    /\ now = 0
    /\ py311 \in BOOLEAN
    /\ resp = NoResponse
    /\ ret = None
    /\ hist = NoHistory
    /\ threads = NoThreads

\* History kept for the properties: how many times in a row (1 or 2) the last
\* request, a toggle or a delete that succeeded, was made for the same task,
\* and the caller's collection before the first toggle of that run.
Run(out) ==
    LET r == out.resp.request
        origin == IF r.endpoint = "toggle_task"
                  THEN StoredTasks(disk, session.user_id) ELSE <<>>
    IN  IF ~(r.endpoint \in {"toggle_task", "delete_task"} /\ out.resp.status = 302
             /\ out.resp.location[1].url = P_home)
        THEN NoHistory
        ELSE IF hist.endpoint = r.endpoint /\ hist.task_id = r.task_id[1] /\ hist.count = 1
        THEN [hist EXCEPT !.count = 2]
        ELSE [endpoint |-> r.endpoint, task_id |-> r.task_id[1], count |-> 1,
              origin |-> origin]

Apply(out) ==
    /\ disk' = out.disk
    /\ session' = out.session
    /\ resp' = out.resp
    /\ hist' = Run(out)
    /\ UNCHANGED <<now, py311, ret, threads>>

(***************************************************************************)
(* Spec: one account and its task collection.                              *)
(***************************************************************************)
\* the salts generate_password_hash may draw
Salts == {"salt1"}

RegisterForms == {[username |-> S_bob, email |-> S_abc, password |-> S_secret],
                  [username |-> S_blank, email |-> S_abc, password |-> S_secret],
                  [username |-> S_bob, email |-> S_nodot, password |-> S_secret],
                  [username |-> S_bob, email |-> S_abc, password |-> S_short]}
LoginForms == {[username_or_email |-> S_BOB, password |-> S_secret, next |-> <<>>],
               [username_or_email |-> S_bob, password |-> S_short, next |-> <<>>]}
Dashes == {NoDash, [NoDash EXCEPT !.sort = S_newest, !.status = S_Complete]}
TaskForms == [title : {S_read, S_blank}, memo : {<<>>},
              due_date : {<<>>, D_jan10b, D_feb30}, dash : {NoDash}]
ActionForms == [dash : Dashes]
TaskIds == 1..(MaxId + 1)

RegisterPost ==
    \E form \in RegisterForms, salt \in Salts :
        LET out == register_post(disk, session, form, salt)
        IN  /\ Len(StoredUsers(out.disk)) <= MaxUsers
            /\ Apply(out)

LoginPost == \E form \in LoginForms : Apply(login_post(disk, session, form))

Logout == Apply(logout(disk, session))

HomePage == \E args \in Dashes : Apply(home_page(disk, session, args, py311))

AddTask ==
    \E form \in TaskForms :
        LET out == add_task(disk, session, form, now, py311)
            stored == StoredTasks(out.disk, session.user_id)
        IN  /\ Len(stored) <= MaxTasks
            /\ \A i \in DOMAIN stored : stored[i].id <= MaxId
            /\ Apply(out)

ToggleTask ==
    \E task_id \in TaskIds, form \in ActionForms :
        Apply(toggle_task(disk, session, task_id, form))

DeleteTask ==
    \E task_id \in TaskIds, form \in ActionForms :
        Apply(delete_task(disk, session, task_id, form))

ViewTask == \E task_id \in TaskIds : Apply(view_task(disk, session, task_id))

Tick ==
    /\ now < MaxClock
    /\ now' = now + 1
    /\ UNCHANGED <<disk, session, py311, resp, ret, hist, threads>>

Next ==
    \/ RegisterPost
    \/ LoginPost
    \/ Logout
    \/ HomePage
    \/ AddTask
    \/ ToggleTask
    \/ DeleteTask
    \/ ViewTask
    \/ Tick

Spec == Init /\ [][Next]_vars

(***************************************************************************)
(* SpecAuth: registration and login over usernames and e-mails that differ *)
(* in case or look alike, with valid and invalid fields, and login with    *)
(* relative and absolute next targets.                                     *)
(***************************************************************************)
NextTargets == {<<>>, P_task(1), S_http \o S_evil, S_https \o S_evil,
                S_HTTP \o S_evil, <<"/","/">> \o S_evil}
AuthRegisterForms ==
    [username : {S_bob, S_BOB, S_abc}, email : {S_abc, S_ABC, S_xyz},
     password : {S_secret, S_hunter2}]
    \cup {[username |-> S_blank, email |-> S_abc, password |-> S_secret],
          [username |-> S_bob, email |-> <<>>, password |-> S_secret],
          [username |-> S_bob, email |-> S_abc, password |-> <<>>],
          [username |-> S_bob, email |-> S_nodot, password |-> S_secret],
          [username |-> S_bob, email |-> S_abc, password |-> S_short]}
AuthLoginForms ==
    [username_or_email : {S_bob, S_BOB, S_abc, S_ABC, S_xyz, S_blank},
     password : {S_secret, S_hunter2}, next : {<<>>}]
    \cup [username_or_email : {S_bob, S_abc}, password : {S_secret},
          next : NextTargets]

AuthRegister ==
    \E form \in AuthRegisterForms, salt \in Salts :
        LET out == register_post(disk, session, form, salt)
        IN  /\ Len(StoredUsers(out.disk)) <= MaxUsers
            /\ Apply(out)

AuthLogin == \E form \in AuthLoginForms : Apply(login_post(disk, session, form))

AuthLogout == Apply(logout(disk, session))

NextAuth ==
    \/ AuthRegister
    \/ AuthLogin
    \/ AuthLogout

\* the auth handlers parse no date, so one interpreter stands for both
InitAuth == Init /\ py311

SpecAuth == InitAuth /\ [][NextAuth]_vars

(***************************************************************************)
(* SpecLoad: the loaders called on a data directory whose users.json and   *)
(* first user's task file are absent, malformed, or hold any JSON value.   *)
(***************************************************************************)
S_seed == [id |-> 1]

FileShapes ==
    {NoFile,
     [exists |-> TRUE, wellformed |-> FALSE, type |-> "none", items |-> <<>>]}
    \cup {json_dump([type |-> t, items |-> <<>>]) :
              t \in {"array", "object", "number", "string", "null"}}
    \cup {json_dump(JsonList(<<S_seed>>))}

InitLoad ==
    /\ disk \in {[EmptyDisk EXCEPT !.users = u, !.tasks[task_file_for_user(1)] = t] :
                    u \in FileShapes, t \in FileShapes}
    /\ session = NoSession
    /\ now = 0
    /\ py311 = TRUE
    /\ resp = NoResponse
    /\ ret = None
    /\ hist = NoHistory
    /\ threads = NoThreads

\* a direct call: its name, its arguments, the value it returned
Returned(call, args, value) == Some([call |-> call, args |-> args, value |-> value])

CallLoadUsers ==
    LET out == load_users(disk)
    IN  /\ disk' = out.disk
        /\ ret' = Returned("load_users", None, out.value)
        /\ UNCHANGED <<session, now, py311, resp, hist, threads>>

CallLoadTasks ==
    \E user_id \in {None} \cup {Some(i) : i \in 1..MaxUsers} :
        LET out == load_tasks(disk, user_id)
        IN  /\ disk' = out.disk
            /\ ret' = Returned("load_tasks", user_id, out.value)
            /\ UNCHANGED <<session, now, py311, resp, hist, threads>>

NextLoad ==
    \/ CallLoadUsers
    \/ CallLoadTasks

SpecLoad == InitLoad /\ [][NextLoad]_vars

(***************************************************************************)
(* SpecFilter: apply_filters of app/routes.py and of run.py called once on *)
(* a task list and filter values drawn from bounded sets.                  *)
(***************************************************************************)
MaxList == 2

D_jan05  == <<"2","0","2","4","-","0","1","-","0","5">>
D_jan15  == <<"2","0","2","4","-","0","1","-","1","5">>
D_bad    == <<"s","o","o","n">>
D_space  == <<" ">>
S_lambda == <<"l","a","m","b","d","a">>
S_memo   == <<"L","a","m","b","d","a"," ","F">>

Task(id, title, memo, status, due_date, clock) ==
    [id |-> id, title |-> title, memo |-> memo, status |-> status,
     due_date |-> due_date, created_at |-> now_isoformat(clock)]

FilterTasks ==
    {Task(1, S_read, <<>>, S_incomplete, D_jan10, 0),
     Task(2, S_read, S_memo, S_complete, D_jan05, 1),
     Task(3, S_read, S_memo, S_incomplete, <<>>, 1),
     Task(4, S_read, <<>>, S_complete, D_jan10b, 2),
     Task(5, S_lambda, <<>>, S_incomplete, D_jan15, 2)}

\* lists without repeated tasks, of at most MaxList tasks
TaskLists ==
    UNION {{l \in [1..n -> FilterTasks] : \A i, j \in 1..n : l[i] = l[j] => i = j} :
              n \in 0..MaxList}

FilterArgs ==
    [tasks : TaskLists, status : {<<>>, S_Complete}, q : {<<>>, S_lambda},
     due : {<<>>, D_jan10, D_bad, D_space},
     due_from : {<<>>, D_jan05, D_jan15, D_bad},
     due_to : {<<>>, D_jan05, D_jan15}]

InitFilter ==
    /\ disk = EmptyDisk
    /\ session = NoSession
    /\ now = 0
    /\ py311 \in BOOLEAN
    /\ resp = NoResponse
    /\ ret \in {Returned("", a, <<>>) : a \in FilterArgs}
    /\ hist = NoHistory
    /\ threads = NoThreads

CallApplyFilters ==
    /\ ret[1].call = ""
    /\ LET a == ret[1].args
       IN  ret' = Returned("apply_filters", a,
                           apply_filters(a.tasks, a.status, a.q, a.due,
                                         a.due_from, a.due_to, py311))
    /\ UNCHANGED <<disk, session, now, py311, resp, hist, threads>>

CallRunApplyFilters ==
    /\ ret[1].call = ""
    /\ LET a == ret[1].args
       IN  ret' = Returned("run.apply_filters", a,
                           run_apply_filters(a.tasks, a.status, a.q, a.due,
                                             a.due_from, a.due_to, py311))
    /\ UNCHANGED <<disk, session, now, py311, resp, hist, threads>>

NextFilter ==
    \/ CallApplyFilters
    \/ CallRunApplyFilters

SpecFilter == InitFilter /\ [][NextFilter]_vars

(***************************************************************************)
(* SpecSort: sort_tasks called once on a list of distinct tasks, in every  *)
(* order, under every sort key.                                            *)
(***************************************************************************)
MaxSort == 3

S_padded  == <<" ">> \o S_newest \o <<" ">>
S_unknown == <<"t","i","t","l","e">>

\* tasks 1 and 2 agree in due date and creation time, tasks 3 and 4 are
\* undated and created together, task 6 is dated from Python 3.11 on only
SortTasks ==
    {Task(1, S_read, <<>>, S_incomplete, D_jan10, 0),
     Task(2, S_lambda, <<>>, S_complete, D_jan10, 0),
     Task(3, S_read, <<>>, S_incomplete, <<>>, 1),
     Task(4, S_read, S_memo, S_incomplete, D_bad, 1),
     Task(5, S_read, <<>>, S_complete, D_jan05, 2),
     Task(6, S_read, <<>>, S_incomplete, D_jan10b, 0)}

\* lists without repeated tasks, of at most MaxSort tasks
SortLists ==
    UNION {{l \in [1..n -> SortTasks] : \A i, j \in 1..n : l[i] = l[j] => i = j} :
              n \in 0..MaxSort}

SortKeys == {<<>>, S_due_asc, S_due_desc, S_status, S_newest, S_oldest,
             S_padded, S_unknown}

SortArgs == [tasks : SortLists, sort : SortKeys]

InitSort ==
    /\ disk = EmptyDisk
    /\ session = NoSession
    /\ now = 0
    /\ py311 \in BOOLEAN
    /\ resp = NoResponse
    /\ ret \in {Returned("", a, <<>>) : a \in SortArgs}
    /\ hist = NoHistory
    /\ threads = NoThreads

CallSortTasks ==
    /\ ret[1].call = ""
    /\ LET a == ret[1].args
       IN  ret' = Returned("sort_tasks", a, sort_tasks(a.tasks, a.sort, py311))
    /\ UNCHANGED <<disk, session, now, py311, resp, hist, threads>>

NextSort == CallSortTasks

SpecSort == InitSort /\ [][NextSort]_vars

(***************************************************************************)
(* SpecRace: two requests of one logged-in user served by two threads of   *)
(* the development server (app.run serves each request in a thread of its  *)
(* own).  A handler that saves is two steps, up to and including           *)
(* load_tasks and from there through save_tasks; a handler that answers    *)
(* without saving is one.                                                  *)
(***************************************************************************)
RaceRegistered ==
    register_post(EmptyDisk, NoSession,
                  [username |-> S_bob, email |-> S_abc, password |-> S_secret], "salt1")
RaceLoggedIn ==
    login_post(RaceRegistered.disk, NoSession,
               [username_or_email |-> S_bob, password |-> S_secret, next |-> <<>>])
RaceForm(title) == [title |-> title, memo |-> <<>>, due_date |-> <<>>, dash |-> NoDash]
RaceOneTask ==
    add_task(RaceLoggedIn.disk, RaceLoggedIn.session, RaceForm(S_read), 0, TRUE)
RaceTwoTasks ==
    add_task(RaceOneTask.disk, RaceLoggedIn.session, RaceForm(S_lambda), 0, TRUE)

\* the data directory after the user registered, logged in and added no, one
\* or two tasks
RaceDisks == {RaceLoggedIn.disk, RaceOneTask.disk, RaceTwoTasks.disk}

RaceRequests ==
    [endpoint : {"add_task"}, task_id : {0},
     form : {RaceForm(S_memo), RaceForm(S_bob), RaceForm(S_blank)}]
    \cup [endpoint : {"toggle_task", "delete_task"}, task_id : 1..3,
          form : {[dash |-> NoDash]}]

\* the view function a request is routed to
handle(d, sess, r, clock, py) ==
    IF r.endpoint = "add_task" THEN add_task(d, sess, r.form, clock, py)
    ELSE IF r.endpoint = "toggle_task" THEN toggle_task(d, sess, r.task_id, r.form)
    ELSE IF r.endpoint = "delete_task" THEN delete_task(d, sess, r.task_id, r.form)
    ELSE view_task(d, sess, r.task_id)

\* the response add_task, toggle_task and delete_task return after save_tasks,
\* and on no other path: the redirect to home_page with nothing flashed
Saved(r) ==
    /\ r.request.endpoint \in {"add_task", "toggle_task", "delete_task"}
    /\ r.status = 302 /\ r.location # None /\ r.location[1].url = P_home
    /\ r.flash = <<>>

\* save_tasks calls completed so far
Saves == Cardinality({u \in Threads : threads[u].turn > 0})

InitRace ==
    /\ disk \in RaceDisks
    /\ session = RaceLoggedIn.session
    /\ now = 0
    /\ py311 \in BOOLEAN
    /\ resp = NoResponse
    /\ ret = None
    /\ hist = NoHistory
    /\ threads = NoThreads

\* a thread takes a request and runs its handler on the data directory as it
\* is now, through load_tasks and the change to the list in memory; a handler
\* that does not reach save_tasks returns
RaceLoad(t) ==
    /\ threads[t].pc = "idle"
    /\ \E r \in RaceRequests :
          LET out == handle(disk, session, r, now, py311)
              saving == Saved(out.resp)
          IN  /\ threads' = [threads EXCEPT ![t] =
                     [pc |-> IF saving THEN "loaded" ELSE "done",
                      request |-> out.resp.request,
                      read |-> StoredTasks(disk, session.user_id),
                      tasks |-> IF saving THEN StoredTasks(out.disk, session.user_id)
                                ELSE <<>>,
                      resp |-> out.resp,
                      seen |-> Saves,
                      turn |-> 0]]
              /\ disk' = load_tasks(disk, session.user_id).disk
              /\ resp' = IF saving THEN resp ELSE out.resp
    /\ UNCHANGED <<session, now, py311, ret, hist>>

\* the thread writes the list it has in hand and returns
RaceSave(t) ==
    /\ threads[t].pc = "loaded"
    /\ disk' = save_tasks(disk, JsonList(threads[t].tasks), session.user_id)
    /\ threads' = [threads EXCEPT ![t].pc = "done", ![t].turn = Saves + 1]
    /\ resp' = threads[t].resp
    /\ UNCHANGED <<session, now, py311, ret, hist>>

NextRace ==
    \/ \E t \in Threads : RaceLoad(t)
    \/ \E t \in Threads : RaceSave(t)

SpecRace == InitRace /\ [][NextRace]_vars

(***************************************************************************)
(* SpecOwn: two accounts, each logging in and out and adding, toggling,    *)
(* deleting and viewing tasks by ids that exist in its own collection, in  *)
(* the other's, or in neither.                                             *)
(***************************************************************************)
OwnRegisterForms == {[username |-> S_bob, email |-> S_abc, password |-> S_secret],
                     [username |-> S_lambda, email |-> S_xyz, password |-> S_hunter2]}
OwnLoginForms == {[username_or_email |-> S_bob, password |-> S_secret, next |-> <<>>],
                  [username_or_email |-> S_xyz, password |-> S_hunter2, next |-> <<>>]}

OwnRegister ==
    \E form \in OwnRegisterForms, salt \in Salts :
        Apply(register_post(disk, session, form, salt))

OwnLogin == \E form \in OwnLoginForms : Apply(login_post(disk, session, form))

OwnRequests ==
    [endpoint : {"add_task"}, task_id : {0}, form : {RaceForm(S_read)}]
    \cup [endpoint : {"toggle_task", "delete_task", "view_task"}, task_id : 1..MaxTasks,
          form : {[dash |-> NoDash]}]

\* a task request of whoever is logged in, or of nobody
OwnTask ==
    \E r \in OwnRequests :
        LET out == handle(disk, session, r, now, py311)
            stored == StoredTasks(out.disk, session.user_id)
        IN  /\ Len(stored) <= MaxTasks
            /\ \A i \in DOMAIN stored : stored[i].id <= MaxTasks
            /\ Apply(out)

NextOwn ==
    \/ OwnRegister
    \/ OwnLogin
    \/ Logout
    \/ OwnTask

SpecOwn == InitAuth /\ [][NextOwn]_vars

(***************************************************************************)
(* Properties.                                                             *)
(***************************************************************************)
IdsOf(tasks) == {tasks[i].id : i \in DOMAIN tasks}

UniqueIds(tasks) == \A i, j \in DOMAIN tasks : tasks[i].id = tasks[j].id => i = j

LargestId(tasks) == IF tasks = <<>> THEN 0 ELSE SeqMax(IdsOf(tasks))

\* the step answers a request (the clock's tick answers none)
IsRequestStep == now' = now

RedirectsHome(r) == r.status = 302 /\ r.location # None /\ r.location[1].url = P_home

AddSucceeded(r) ==
    r.request.endpoint = "add_task" /\ RedirectsHome(r) /\ r.flash = <<>>

\* C1: in every reachable state no two tasks of one stored collection share an
\* id, and every successful add_task appends one task whose id is the largest
\* id of the caller's collection before the request (0 if it was empty) plus 1.
C1_TaskIds ==
    /\ [](\A k \in TaskPaths : UniqueIds(disk.tasks[k].items))
    /\ [][(IsRequestStep /\ AddSucceeded(resp')) =>
            LET old == StoredTasks(disk, session.user_id)
                new == StoredTasks(disk', session.user_id)
            IN  /\ Len(new) = Len(old) + 1
                /\ SubSeq(new, 1, Len(old)) = old
                /\ new[Len(new)].id = LargestId(old) + 1]_vars

\* an add has succeeded after a delete left a gap: ids 2 and 3 are stored
C1_Witness ==
    /\ AddSucceeded(resp)
    /\ session.user_id # None
    /\ LET tasks == StoredTasks(disk, session.user_id)
       IN  Len(tasks) = 2 /\ tasks[1].id = 2 /\ tasks[2].id = 3

TaskEndpoints == {"home_page", "add_task", "toggle_task", "delete_task", "view_task"}

\* C4: whenever the session holds no user id, a request for a task route
\* (/home, /tasks/add, /tasks/<id>/toggle, /tasks/<id>/delete, /tasks/<id>) is
\* answered with a redirect to the login page carrying the requested path as
\* next, and the request leaves users.json, every task file and the session as
\* they were.
C4_GuardRedirects ==
    [][(IsRequestStep /\ session.user_id = None
            /\ resp'.request.endpoint \in TaskEndpoints) =>
          /\ resp'.status = 302
          /\ resp'.location = Some(url_for(P_login, <<<<"next", resp'.request.path>>>>))
          /\ disk' = disk
          /\ session' = session]_vars

\* after a logout, with an account and a task on disk, a toggle was redirected
C4_Witness ==
    /\ session.user_id = None
    /\ resp.request.endpoint = "toggle_task"
    /\ resp.location = Some(url_for(P_login, <<<<"next", P_toggle(1)>>>>))
    /\ StoredUsers(disk) # <<>>
    /\ StoredTasks(disk, Some(1)) # <<>>

StatusOf(tasks, task_id) == tasks[find_task(tasks, task_id)[1]].status

\* C6: after two successful toggle_task requests in a row for the same task id,
\* the task's status and the caller's whole stored collection are what they
\* were before the first of the two.
C6_ToggleTwice ==
    (hist.endpoint = "toggle_task" /\ hist.count = 2) =>
        /\ StoredTasks(disk, session.user_id) = hist.origin
        /\ StatusOf(StoredTasks(disk, session.user_id), hist.task_id)
             = StatusOf(hist.origin, hist.task_id)

\* a completed task of a two-task collection was toggled twice in a row
C6_Witness ==
    /\ hist.endpoint = "toggle_task" /\ hist.count = 2
    /\ resp.request.endpoint = "toggle_task" /\ RedirectsHome(resp)
    /\ Len(hist.origin) = 2
    /\ StatusOf(hist.origin, hist.task_id) = S_complete

\* C7: delete_task for an id that no task of the caller's collection has is
\* answered with the redirect to the dashboard and leaves the caller's stored
\* collection as it was; so a second delete of the same id in a row changes
\* nothing.
C7_DeleteAbsent ==
    [][(IsRequestStep /\ session.user_id # None
            /\ resp'.request.endpoint = "delete_task"
            /\ resp'.request.task_id[1] \notin IdsOf(StoredTasks(disk, session.user_id))) =>
          /\ RedirectsHome(resp')
          /\ resp'.flash = <<>>
          /\ StoredTasks(disk', session.user_id) = StoredTasks(disk, session.user_id)]_vars

\* the same id was deleted twice in a row and another task remains stored
C7_Witness ==
    /\ hist.endpoint = "delete_task" /\ hist.count = 2
    /\ resp.request.endpoint = "delete_task" /\ RedirectsHome(resp)
    /\ session.user_id # None
    /\ StoredTasks(disk, session.user_id) # <<>>

EqualIgnoringCase(a, b) == str_lower(a) = str_lower(b)

IsError(r) == r.flash # <<>> /\ \A i \in DOMAIN r.flash : r.flash[i][2] = "error"

RegisterStep ==
    IsRequestStep /\ resp'.request.endpoint = "register_post" /\ session.user_id = None

\* C2: in every reachable state no two stored users have usernames, or e-mails,
\* that are equal ignoring case; a registration whose username or e-mail equals
\* a stored one ignoring case is rejected and leaves the users collection as it
\* was; a registration with all fields valid and username and e-mail distinct
\* from every stored one is accepted: the user is appended.
C2_UniqueUsers ==
    /\ [](LET users == StoredUsers(disk)
          IN  \A i, j \in DOMAIN users : i # j =>
                  /\ ~EqualIgnoringCase(users[i].username, users[j].username)
                  /\ ~EqualIgnoringCase(users[i].email, users[j].email))
    /\ [][RegisterStep =>
            LET f == resp'.request.form
                old == StoredUsers(disk)
                new == StoredUsers(disk')
                taken == \E i \in DOMAIN old :
                            \/ EqualIgnoringCase(old[i].username, f.username)
                            \/ EqualIgnoringCase(old[i].email, f.email)
                valid == /\ str_strip(f.username) # <<>>
                         /\ is_valid_email(f.email)
                         /\ Len(f.password) >= 6
            IN  /\ taken => /\ new = old
                            /\ resp'.location = Some(url_for(P_register, <<>>))
                            /\ IsError(resp')
                /\ (~taken /\ valid) =>
                            /\ Len(new) = Len(old) + 1
                            /\ SubSeq(new, 1, Len(old)) = old
                            /\ new[Len(new)].username = f.username
                            /\ new[Len(new)].email = f.email
                            /\ resp'.location = Some(url_for(P_login, <<>>))]_vars

\* with two users stored, a registration differing from a stored username only
\* in case has just been rejected
C2_Witness ==
    /\ resp.request.endpoint = "register_post"
    /\ resp.flash = <<F_taken>>
    /\ Len(StoredUsers(disk)) = 2
    /\ \E i \in DOMAIN StoredUsers(disk) :
          /\ StoredUsers(disk)[i].username # resp.request.form.username
          /\ EqualIgnoringCase(StoredUsers(disk)[i].username, resp.request.form.username)

LoginStep ==
    IsRequestStep /\ resp'.request.endpoint = "login_post" /\ session.user_id = None

\* C3: a login establishes a session if and only if some stored user has a
\* username or e-mail equal to the identifier ignoring case and a password hash
\* that verifies the password given; the session is then bound to the id of
\* such a user.
C3_LoginIff ==
    [][LoginStep =>
         LET f == resp'.request.form
             users == StoredUsers(disk)
             match == {i \in DOMAIN users :
                         /\ \/ EqualIgnoringCase(users[i].username, f.username_or_email)
                            \/ EqualIgnoringCase(users[i].email, f.username_or_email)
                         /\ check_password_hash(users[i].password_hash, f.password)}
         IN  /\ (session'.user_id # None) <=> (match # {})
             /\ (session'.user_id # None) =>
                    \E i \in match : session'.user_id = Some(users[i].id)]_vars

BeginsWithScheme(target) ==
    \/ str_startswith(str_lower(target), S_http)
    \/ str_startswith(str_lower(target), S_https)

\* C5: after a successful login whose next target begins with a scheme
\* (http://, https://, in any letter case), the redirect goes to /home and not
\* to the target.
C5_NoOpenRedirect ==
    [][(LoginStep /\ session'.user_id # None
            /\ BeginsWithScheme(resp'.request.form.next)) =>
          resp'.location = Some(url_for(P_home, <<>>))]_vars

\* C8: a request that fails validation (add_task with a blank title or with a
\* due date that is not empty and not a YYYY-MM-DD calendar date; register_post
\* with an empty field, a malformed e-mail or a password shorter than 6) ends in
\* a redirect with an error message and leaves the users collection and every
\* task collection as they were.
C8_ValidationFrame ==
    [][(\/ /\ IsRequestStep /\ resp'.request.endpoint = "add_task"
           /\ session.user_id # None
           /\ LET f == resp'.request.form
              IN  \/ str_strip(f.title) = <<>>
                  \/ (f.due_date # <<>> /\ iso_extended(f.due_date) = None)
        \/ /\ RegisterStep
           /\ LET f == resp'.request.form
              IN  \/ str_strip(f.username) = <<>>
                  \/ str_strip(f.email) = <<>>
                  \/ f.password = <<>>
                  \/ ~is_valid_email(f.email)
                  \/ Len(f.password) < 6) =>
          /\ resp'.status = 302
          /\ IsError(resp')
          /\ StoredUsers(disk') = StoredUsers(disk)
          /\ \A k \in TaskPaths : disk'.tasks[k] = disk.tasks[k]]_vars

\* the document the loader reads for the call that has just returned
FileRead(d, r) ==
    IF r.call = "load_users" THEN d.users ELSE d.tasks[tasks_path(r.args)]

\* C9: load_users and load_tasks return the empty list for a missing file, for
\* a malformed document and for a well-formed document whose top-level value
\* is not an array.
C9_LoadersBestEffort ==
    [][(ret' # None /\ ret'[1].call \in {"load_users", "load_tasks"}) =>
         LET f == FileRead(disk, ret'[1])
         IN  (~f.exists \/ ~f.wellformed \/ f.type # "array") =>
                 ret'[1].value = JsonList(<<>>)]_vars

FilterCalls == {"apply_filters", "run.apply_filters"}

\* C10: when due parses as a date, both versions of apply_filters return, for
\* every due_from and due_to, the tasks that pass the status and text stages
\* (the result of the same call with no due filter at all) and whose due date
\* equals due.
C10_ExactIgnoresRange ==
    (ret # None /\ ret[1].call \in FilterCalls
        /\ parse_date_yyyy_mm_dd(ret[1].args.due, py311) # None) =>
      LET a == ret[1].args
          on_due(t) == parse_date_yyyy_mm_dd(t.due_date, py311)
                         = parse_date_yyyy_mm_dd(a.due, py311)
          staged == IF ret[1].call = "apply_filters"
                    THEN apply_filters(a.tasks, a.status, a.q, <<>>, <<>>, <<>>, py311).filtered
                    ELSE run_apply_filters(a.tasks, a.status, a.q, <<>>, <<>>, <<>>, py311).filtered
      IN  ret[1].value.filtered = SelectSeq(staged, on_due)

\* app/routes.py returned both tasks due on the exact date although a valid
\* range lying wholly after that date was given with it
C10_Witness ==
    /\ ret # None /\ ret[1].call = "apply_filters"
    /\ ret[1].args.due = D_jan10
    /\ ret[1].args.due_from = D_jan15 /\ ret[1].args.due_to = D_jan15
    /\ Len(ret[1].value.filtered) = 2

\* the exact date a version of apply_filters takes from due: run.py strips the
\* value first
ExactOf(call, a) ==
    IF call = "apply_filters" THEN parse_date_yyyy_mm_dd(a.due, py311)
    ELSE parse_date_yyyy_mm_dd(str_strip(a.due), py311)

\* the tasks that pass the status and text stages: the same call with no due
\* filter at all
StagedOf(call, a) ==
    IF call = "apply_filters"
    THEN apply_filters(a.tasks, a.status, a.q, <<>>, <<>>, <<>>, py311).filtered
    ELSE run_apply_filters(a.tasks, a.status, a.q, <<>>, <<>>, <<>>, py311).filtered

\* C11: when due gives no valid exact date, at least one of due_from and
\* due_to parses and the two are not reversed, both versions of apply_filters
\* keep, of the tasks that pass the status and text stages, exactly those with
\* a parseable due date d with (no lower bound or d >= lower) and (no upper
\* bound or d <= upper); tasks with an empty or unparseable due date are
\* dropped and a task due on a bound is kept.
C11_RangeInclusive ==
    (ret # None /\ ret[1].call \in FilterCalls) =>
      LET a == ret[1].args
          lower == parse_date_yyyy_mm_dd(a.due_from, py311)
          upper == parse_date_yyyy_mm_dd(a.due_to, py311)
          within(t) ==
              LET d == parse_date_yyyy_mm_dd(t.due_date, py311)
              IN  /\ d # None
                  /\ lower = None \/ d[1] >= lower[1]
                  /\ upper = None \/ d[1] <= upper[1]
      IN  (/\ ExactOf(ret[1].call, a) = None
           /\ lower # None \/ upper # None
           /\ ~(lower # None /\ upper # None /\ lower[1] > upper[1])) =>
              ret[1].value.filtered = SelectSeq(StagedOf(ret[1].call, a), within)

\* run.py was given the range 2024-01-05..2024-01-15, a task due on its first
\* day and an undated task, and kept the first only
C11_Witness ==
    /\ ret # None /\ ret[1].call = "run.apply_filters"
    /\ ret[1].args.due = <<>> /\ ret[1].args.status = <<>> /\ ret[1].args.q = <<>>
    /\ ret[1].args.due_from = D_jan05 /\ ret[1].args.due_to = D_jan15
    /\ Len(ret[1].args.tasks) = 2
    /\ ret[1].args.tasks[1].due_date = D_jan05
    /\ ret[1].args.tasks[2].due_date = <<>>
    /\ ret[1].value.filtered = <<ret[1].args.tasks[1]>>

\* the warnings a call returned about its exact due value
DueWarnings(r) ==
    LET flashed(w) == w = F_bad_exact
        returned(w) == w = E_due
    IN  IF r.call = "apply_filters" THEN SelectSeq(r.value.flashes, flashed)
        ELSE SelectSeq(r.value.errors, returned)

\* the list the same call returns when made with due empty
WithoutDue(call, a) ==
    IF call = "apply_filters"
    THEN apply_filters(a.tasks, a.status, a.q, <<>>, a.due_from, a.due_to, py311).filtered
    ELSE run_apply_filters(a.tasks, a.status, a.q, <<>>, a.due_from, a.due_to, py311).filtered

\* C12, as claimed: a call of apply_filters with a non-empty due that does not
\* parse as a date returns exactly one warning for that value and the list
\* the same call returns with due empty.
C12_UnparseableDue ==
    (ret # None /\ ret[1].call \in FilterCalls
        /\ ret[1].args.due # <<>> /\ ExactOf(ret[1].call, ret[1].args) = None) =>
      /\ Len(DueWarnings(ret[1])) = 1
      /\ ret[1].value.filtered = WithoutDue(ret[1].call, ret[1].args)

\* C12, amended: a call of apply_filters with a due that is non-empty after
\* surrounding whitespace is removed and that does not parse as a date returns
\* exactly one warning for that value and the list the same call returns with
\* due empty; a due of whitespace only filters nothing either.
C12_UnparseableDueTrimmed ==
    (ret # None /\ ret[1].call \in FilterCalls
        /\ ExactOf(ret[1].call, ret[1].args) = None) =>
      /\ str_strip(ret[1].args.due) # <<>> => Len(DueWarnings(ret[1])) = 1
      /\ ret[1].value.filtered = WithoutDue(ret[1].call, ret[1].args)

\* run.py was given the due value "soon" with a range that drops a task: one
\* warning, and the range alone decided the list
C12_Witness ==
    /\ ret # None /\ ret[1].call = "run.apply_filters"
    /\ ret[1].args.due = D_bad
    /\ ret[1].args.due_from = D_jan15 /\ ret[1].args.due_to = <<>>
    /\ ret[1].value.errors = <<E_due>>
    /\ Len(ret[1].args.tasks) = 2
    /\ Len(ret[1].value.filtered) = 1

\* a call of run.py's apply_filters with no valid exact date and a range whose
\* two bounds parse, the first after the second
ReversedRunCall ==
    /\ ret # None /\ ret[1].call = "run.apply_filters"
    /\ ExactOf(ret[1].call, ret[1].args) = None
    /\ LET lower == parse_date_yyyy_mm_dd(ret[1].args.due_from, py311)
           upper == parse_date_yyyy_mm_dd(ret[1].args.due_to, py311)
       IN  lower # None /\ upper # None /\ lower[1] > upper[1]

RangeWarnings(r) ==
    LET about_range(w) == w = E_range
    IN  SelectSeq(r.value.errors, about_range)

\* C19, as claimed: run.py's apply_filters, given no valid exact date and a
\* reversed range, returns exactly one warning about the invalid range and
\* keeps no task.
C19_ReversedRangeEmpty ==
    ReversedRunCall =>
      /\ Len(RangeWarnings(ret[1])) = 1
      /\ ret[1].value.filtered = <<>>

\* C19, amended: run.py's apply_filters, given no valid exact date and a
\* reversed range, returns exactly one warning about the invalid range and
\* applies no due-date filter: it keeps every task that passed the status and
\* text stages.
C19_ReversedRangeSkipped ==
    ReversedRunCall =>
      /\ Len(RangeWarnings(ret[1])) = 1
      /\ ret[1].value.filtered = StagedOf(ret[1].call, ret[1].args)

\* run.py was given the range 2024-01-15..2024-01-05 and returned both tasks of
\* the list, one of them undated, with the warning
C19_Witness ==
    /\ ReversedRunCall
    /\ ret[1].args.due_from = D_jan15 /\ ret[1].args.due_to = D_jan05
    /\ ret[1].value.errors = <<E_range>>
    /\ Len(ret[1].value.filtered) = 2
    /\ \E i \in 1..2 : ret[1].value.filtered[i].due_date = <<>>

Sorted(key) == ret # None /\ ret[1].call = "sort_tasks" /\ str_strip(ret[1].args.sort) = key

DueOf(t) == parse_date_yyyy_mm_dd(t.due_date, py311)

\* C13: sort_tasks under due_asc and under due_desc returns, for every list in
\* every order, a list in which no task without a valid due date stands before
\* a task with one, the dated tasks ascending by due date under due_asc and
\* descending under due_desc.
C13_UndatedLast ==
    (Sorted(S_due_asc) \/ Sorted(S_due_desc)) =>
      LET r == ret[1].value
      IN  \A i, j \in DOMAIN r : i < j =>
            /\ ~(DueOf(r[i]) = None /\ DueOf(r[j]) # None)
            /\ (DueOf(r[i]) # None /\ DueOf(r[j]) # None) =>
                  IF Sorted(S_due_asc) THEN DueOf(r[i])[1] <= DueOf(r[j])[1]
                  ELSE DueOf(r[i])[1] >= DueOf(r[j])[1]

\* due_desc was given an undated task first, then the task due 2024-01-05 and
\* the task due 2024-01-10, and returned them in the opposite order
C13_Witness ==
    /\ Sorted(S_due_desc)
    /\ Len(ret[1].args.tasks) = 3
    /\ ret[1].args.tasks[1].due_date = <<>>
    /\ ret[1].args.tasks[2].due_date = D_jan05
    /\ ret[1].args.tasks[3].due_date = D_jan10
    /\ ret[1].value = <<ret[1].args.tasks[3], ret[1].args.tasks[2], ret[1].args.tasks[1]>>

\* two tasks have equal sort keys under the key named
EqualKeys(key, a, b) ==
    IF key \in {S_due_asc, S_due_desc}
    THEN DueOf(a) = DueOf(b) /\ a.created_at = b.created_at
    ELSE IF key = S_status
    THEN (a.status = S_complete) = (b.status = S_complete) /\ a.created_at = b.created_at
    ELSE a.created_at = b.created_at

KnownKeys == {S_due_asc, S_due_desc, S_status, S_newest, S_oldest}

\* C14: the list sort_tasks returns holds the tasks of its input, each once;
\* under due_asc, due_desc, status, newest and oldest two tasks with equal
\* sort keys stand in the order they had in the input; under an empty or
\* unknown key the input is returned as it is.
C14_StableSort ==
    (ret # None /\ ret[1].call = "sort_tasks") =>
      LET in == ret[1].args.tasks
          out == ret[1].value
          key == str_strip(ret[1].args.sort)
          place(t) == CHOOSE k \in DOMAIN out : out[k] = t
      IN  /\ Len(out) = Len(in)
          /\ \A i \in DOMAIN in : \E k \in DOMAIN out : out[k] = in[i]
          /\ key \in KnownKeys =>
                \A i, j \in DOMAIN in :
                    (i < j /\ EqualKeys(key, in[i], in[j])) => place(in[i]) < place(in[j])
          /\ key \notin KnownKeys => out = in

\* newest was given two tasks created in the same second and then a later one:
\* the later one came first and the two kept their order
C14_Witness ==
    /\ Sorted(S_newest)
    /\ Len(ret[1].args.tasks) = 3
    /\ ret[1].args.tasks[1].created_at = ret[1].args.tasks[2].created_at
    /\ ret[1].value = <<ret[1].args.tasks[3], ret[1].args.tasks[1], ret[1].args.tasks[2]>>

RegisterSucceeded ==
    RegisterStep /\ resp'.location = Some(url_for(P_login, <<>>)) /\ resp'.flash = <<F_created>>

\* C15: from an empty users collection on, the first successful registration
\* stores its user under id 1 and every later one under the largest id stored
\* so far plus one, greater than every id stored before; in every reachable
\* state no two stored users have the same id.
C15_UserIds ==
    /\ [](LET users == StoredUsers(disk)
          IN  \A i, j \in DOMAIN users : i # j => users[i].id # users[j].id)
    /\ [][RegisterSucceeded =>
            LET old == StoredUsers(disk)
                new == StoredUsers(disk')
                id == new[Len(new)].id
            IN  /\ Len(new) = Len(old) + 1
                /\ SubSeq(new, 1, Len(old)) = old
                /\ old = <<>> => id = 1
                /\ old # <<>> => id = SeqMax({old[i].id : i \in DOMAIN old}) + 1
                /\ \A i \in DOMAIN old : id > old[i].id]_vars

\* a second registration has just succeeded: users 1 and 2 are stored
C15_Witness ==
    /\ resp.request.endpoint = "register_post"
    /\ resp.flash = <<F_created>>
    /\ Len(StoredUsers(disk)) = 2
    /\ StoredUsers(disk)[1].id = 1
    /\ StoredUsers(disk)[2].id = 2

\* the stored users the identifier of a login names, by username or by e-mail
Named(users, identifier) ==
    {i \in DOMAIN users :
        \/ EqualIgnoringCase(users[i].username, str_strip(identifier))
        \/ EqualIgnoringCase(users[i].email, str_strip(identifier))}

\* the login request names no stored user
UnknownIdentifier ==
    LoginStep /\ Named(StoredUsers(disk), resp'.request.form.username_or_email) = {}

\* the login request names stored users and the password verifies against
\* none of them
WrongPassword ==
    /\ LoginStep
    /\ LET users == StoredUsers(disk)
           named == Named(users, resp'.request.form.username_or_email)
       IN  /\ named # {}
           /\ \A i \in named :
                 ~check_password_hash(users[i].password_hash, resp'.request.form.password)

\* C16: a login_post that names no stored user and a login_post that names one
\* with a password that does not verify are answered alike: the redirect to the
\* login page carrying the next target of the form, with the one error message
\* "Invalid username/email or password.", and the session has no user id.
C16_UniformFailure ==
    [][(UnknownIdentifier \/ WrongPassword) =>
          /\ resp'.status = 302
          /\ resp'.location = Some(url_for(P_login, <<<<"next", resp'.request.form.next>>>>))
          /\ resp'.flash = <<F_invalid>>
          /\ resp'.template = ""
          /\ session'.user_id = None]_vars

\* with a user stored, a login naming nobody has just been refused
C16_Witness ==
    /\ resp.request.endpoint = "login_post"
    /\ resp.flash = <<F_invalid>>
    /\ session.user_id = None
    /\ StoredUsers(disk) # <<>>
    /\ Named(StoredUsers(disk), resp.request.form.username_or_email) = {}

\* the list a request, served alone, makes of the list it loads
ChangeOf(r, old) ==
    IF r.endpoint = "add_task"
    THEN Append(old, [id |-> IF old = <<>> THEN 1
                             ELSE SeqMax({old[i].id : i \in DOMAIN old}) + 1,
                      title |-> str_strip(r.form.title), memo |-> str_strip(r.form.memo),
                      status |-> S_incomplete, due_date |-> str_strip(r.form.due_date),
                      created_at |-> now_isoformat(now)])
    ELSE IF r.endpoint = "toggle_task"
    THEN [i \in DOMAIN old |->
            IF i = SeqMin({j \in DOMAIN old : old[j].id = r.task_id[1]})
            THEN [old[i] EXCEPT !.status = IF @ = S_complete THEN S_incomplete
                                           ELSE S_complete]
            ELSE old[i]]
    ELSE LET keep(t) == t.id # r.task_id[1] IN SelectSeq(old, keep)

\* both threads loaded the collection before either saved, and first saved
\* before second
LostUpdateRace(first, second) ==
    /\ threads[first].turn = 1 /\ threads[second].turn = 2
    /\ threads[first].seen = 0 /\ threads[second].seen = 0

\* C17: when two writing requests of one user (add_task, toggle_task,
\* delete_task) have both loaded the collection before either saved it, both
\* are answered by the redirect to the dashboard without an error, and after
\* the second save the stored collection is the old collection with the second
\* writer's change alone: what the first writer changed is not in it.
C17_LostUpdate ==
    \A first, second \in Threads :
        LostUpdateRace(first, second) =>
            /\ threads[first].read = threads[second].read
            /\ Saved(threads[first].resp) /\ Saved(threads[second].resp)
            /\ StoredTasks(disk, session.user_id)
                 = ChangeOf(threads[second].request, threads[second].read)

\* the first writer added a task and the second completed task 1, both on the
\* collection of one task: the stored collection still has one task, completed
C17_Witness ==
    \E first, second \in Threads :
        /\ LostUpdateRace(first, second)
        /\ threads[first].request.endpoint = "add_task"
        /\ threads[second].request.endpoint = "toggle_task"
        /\ Len(threads[first].read) = 1
        /\ Len(threads[first].tasks) = 2
        /\ Len(StoredTasks(disk, session.user_id)) = 1
        /\ StoredTasks(disk, session.user_id)[1].status = S_complete

\* the ids of the tasks stored for a user
OwnedIds(d, user) == {StoredTasks(d, Some(user))[i].id : i \in DOMAIN StoredTasks(d, Some(user))}

\* the request just answered was made under a session bound to user a
Under(a, endpoints) ==
    /\ IsRequestStep
    /\ session.user_id = Some(a)
    /\ resp'.request.endpoint \in endpoints

\* C18: an add_task, toggle_task or delete_task made under a session bound to
\* user A leaves the stored task collection of every other user B as it was,
\* and a toggle_task or view_task under A's session with an id that is in B's
\* collection and not in A's is answered 404.
C18_OwnTasksOnly ==
    [][\A a, b \in 1..MaxUsers : a # b =>
          /\ Under(a, {"add_task", "toggle_task", "delete_task"}) =>
                StoredTasks(disk', Some(b)) = StoredTasks(disk, Some(b))
          /\ (/\ Under(a, {"toggle_task", "view_task"})
              /\ resp'.request.task_id[1] \in OwnedIds(disk, b) \ OwnedIds(disk, a)) =>
                /\ resp'.status = 404
                /\ disk'.tasks = disk.tasks]_vars

\* user 1 has no task, user 2 has task 1, and a toggle of task 1 under user
\* 1's session has just been answered 404
C18_Witness ==
    /\ session.user_id = Some(1)
    /\ resp.request.endpoint = "toggle_task"
    /\ resp.request.task_id = Some(1)
    /\ resp.status = 404
    /\ StoredTasks(disk, Some(1)) = <<>>
    /\ StoredTasks(disk, Some(2)) # <<>>
    /\ StoredTasks(disk, Some(2))[1].id = 1
    /\ StoredTasks(disk, Some(2))[1].status = S_incomplete

====
